---- MODULE Spec2Model ----
(***************************************************************************)
(* Model of the SignLanguage data pipelines:                               *)
(*   - datasets/DGS_Korpus/DGS_Korpus.py     (catalog download + ledger)   *)
(*   - datasets/Youtube-SL-25/youtube-sl-25.py (per-language download)     *)
(*   - pose_estimation/poses_to_videos.py    (parallel pose rendering)     *)
(* One run executes exactly one of the three programs; the variable        *)
(* `pipeline` says which.  A run of DGS_Korpus.py downloads, analyses or   *)
(* does both (`action`).  seconds_to_hms, a pure function, is in addition  *)
(* applied on its own to a range of durations (pipeline "hms").            *)
(***************************************************************************)
EXTENDS Integers, Sequences, FiniteSets, TLC

\* ---------------------------------------------------------------- bounds
MaxRows == 2        \* rows of the scraped index
MaxVideos == 3      \* rows of the YouTube metadata csv
MaxFiles == 2       \* .pose files found under input_dir
MaxJobs == 2        \* --n_jobs
MaxHours == 1       \* hours of the durations given to seconds_to_hms

\* default of the max_retries parameter; R is drawn from 1..max_retries_default
max_retries_default == 3

\* ------------------------------------------------------- python values
\* A python value of one of the kinds the code dispatches on.
NoneV == [k |-> "none", s |-> <<>>, l |-> <<>>]
StrV(s) == [k |-> "str", s |-> s, l |-> <<>>]
ListV(l) == [k |-> "list", s |-> <<>>, l |-> l]
FloatV == [k |-> "float", s |-> <<>>, l |-> <<>>]

\* ------------------------------------------------------------- strings
\* Strings are sequences of one-character strings.
DigitChar(d) ==
  CASE d = 0 -> "0" [] d = 1 -> "1" [] d = 2 -> "2" [] d = 3 -> "3"
    [] d = 4 -> "4" [] d = 5 -> "5" [] d = 6 -> "6" [] d = 7 -> "7"
    [] d = 8 -> "8" [] d = 9 -> "9"

\* str(n) for n >= 0
RECURSIVE str(_)
str(n) == IF n < 10 THEN <<DigitChar(n)>>
          ELSE str(n \div 10) \o <<DigitChar(n % 10)>>

\* index of the last "/" of p, 0 if none
RECURSIVE rfind_sep(_, _)
rfind_sep(p, i) == IF i = 0 THEN 0
                   ELSE IF p[i] = "/" THEN i ELSE rfind_sep(p, i - 1)

\* os.path.basename
basename(p) == SubSeq(p, rfind_sep(p, Len(p)) + 1, Len(p))

\* os.path.join(a, b)
join(a, b) ==
  IF Len(b) > 0 /\ b[1] = "/" THEN b
  ELSE IF Len(a) = 0 \/ a[Len(a)] = "/" THEN a \o b
  ELSE a \o <<"/">> \o b

\* the counter starting at 1
cumcount_from_one(ts, i) == Cardinality({j \in 1..i : ts[j] = ts[i]})

\* df.groupby('Transcript').cumcount() for row i
cumcount(ts, i) == Cardinality({j \in 1..(i - 1) : ts[j] = ts[i]})

\* the titles used as identifiers, without the counter
transcript_ids_plain(ts) == [i \in 1..Len(ts) |-> ts[i]]

\* df['Transcript'] + '__' + cumcount.astype(str)
transcript_ids(ts) ==
  [i \in 1..Len(ts) |-> ts[i] \o <<"_", "_">> \o str(cumcount(ts, i))]

\* ------------------------------------------------------ seconds_to_hms
\* Durations are counted in hundredths of a second.
\* the minutes taken of the whole duration
hms_minutes_total(cs) == cs \div 6000

\* seconds_to_hms, line 235: int((seconds % 3600) // 60)
hms_minutes(cs) == (cs % 360000) \div 6000

\* f"{x:.2f}" of x = cs / 100
format_2f(cs) ==
  str(cs \div 100) \o <<".", DigitChar((cs % 100) \div 10), DigitChar(cs % 10)>>

\* repr of the float cs / 100, as to_csv writes it
repr_float(cs) ==
  str(cs \div 100) \o <<".", DigitChar((cs % 100) \div 10)>>
  \o (IF cs % 10 = 0 THEN <<>> ELSE <<DigitChar(cs % 10)>>)

\* ", ".join(result)
RECURSIVE join_comma(_)
join_comma(parts) ==
  IF Len(parts) = 0 THEN <<>>
  ELSE IF Len(parts) = 1 THEN parts[1]
  ELSE parts[1] \o <<",", " ">> \o join_comma(Tail(parts))

\* seconds_to_hms, lines 234-243
seconds_to_hms(cs) ==
  LET hours == cs \div 360000
      minutes == hms_minutes(cs)
      secs == cs % 6000
      h == IF hours > 0
           THEN <<str(hours) \o <<" ", "h", "o", "u", "r", "s">>>> ELSE <<>>
      m == IF minutes > 0
           THEN <<str(minutes) \o <<" ", "m", "i", "n", "u", "t", "e", "s">>>>
           ELSE <<>>
      sec == <<format_2f(secs) \o <<" ", "s", "e", "c", "o", "n", "d", "s">>>>
  IN join_comma(h \o m \o sec)

\* ------------------------------------------------------ DGS inputs
dgs_path == <<"d">>
U1 == <<"h", "/", "a">>
U2 == <<"h", "/", "b">>
U3 == <<"g", "/", "a">>

TitleX == <<"X">>
TitleX0 == <<"X", "_", "_", "0">>
TitleXu == <<"X", "_">>

\* Rows that scrape_table can deliver: a title and the URL cells.  A cell is
\* None (no link), a str (one link), a list (several links); a row shorter
\* than the header leaves NaN (a float) in the DataFrame.
IndexRows ==
  { [title |-> TitleX, cells |-> <<NoneV, StrV(U1)>>],
    [title |-> TitleX, cells |-> <<ListV(<<StrV(U1), StrV(U2)>>), NoneV>>],
    [title |-> TitleX0, cells |-> <<FloatV, StrV(U1)>>],
    [title |-> TitleX0, cells |-> <<StrV(U2), FloatV>>],
    [title |-> TitleXu, cells |-> <<NoneV, ListV(<<StrV(U2), StrV(U3)>>)>>] }

SeqsUpTo(S, n) == UNION {[1..m -> S] : m \in 1..n}

VARIABLES
  pipeline,   \* "dgs" | "yt" | "poses" | "hms"
  \* ---- DGS_Korpus.py
  dpc,        \* "start" | "prompt" | "rows" | "saved" | "aborted" | "crashed"
              \* | "schema_error" | "skipped": where download_data stands
  action,     \* args.action: "download" | "analyse" | "both"
  header,     \* the column names of the scraped table, then df.columns
  index,      \* the DataFrame returned by scrape_table
  R,          \* max_retries
  dgsRoot,    \* args.dgs_path on disk: "absent" | "old" | "fresh"
  ids,        \* df.index after set_index('Transcript')
  row,        \* number of the row being applied (1-based)
  rowOpen,    \* download_file_row is running for `row`
  col,        \* column of the row being processed
  elem,       \* element of a list cell being downloaded
  attempt,    \* loop variable of download_file
  filenames,  \* the dict download_file_row builds, per column
  paths,      \* the list built for a list cell
  ledger,     \* df_paths: the rows returned so far
  slotLog,    \* network calls and warnings of the slot worked on last
  lastSlot,   \* [r, c, done]: the slot slotLog belongs to
  dirs,       \* directories created under dgs_path
  files,      \* files written: [path, complete]
  csv,        \* the file written by to_csv (fields as text), <<>> before
  figs,       \* the _figures directory: "absent" | "old" | "fresh"
  apc,        \* "off" | "prompt" | "extract" | "done" | "aborted"
              \* | "crashed" | "report_crashed": where analyze_data stands
  df,         \* the table read by read_csv
  arow,       \* row extract_metadata is applied to
  arole,      \* video role of the loop of extract_metadata
  metadata_dict, \* the dict extract_metadata builds, role -> metadata
  df_metadata,   \* the rows extract_metadata has returned
  probes,     \* the calls of ffmpeg.probe made: [r, role]
  mcsv,       \* dgs_korpus_metadata.csv, <<>> before
  stats,      \* the lines print_video_duration_stats printed
  \* ---- youtube-sl-25.py
  ypc,        \* "idle" | "loop" | "prompt" | "videos" | "done"
  video_data, \* rows of the csv: the language of each video, by row
  yreplace,   \* --replace: "all" | "skip" | "custom"
  ydir0,      \* the language directories existing before the run
  ydir,       \* lang -> [exists, files]: the language directories
  ytodo,      \* languages the for loop has not reached yet
  ylang,      \* language of the current iteration
  ynext,      \* videos of ylang not yet handled
  total_pbar, \* total_pbar.n
  ynet,       \* lang -> number of YouTube requests made for its videos
  ywrites,    \* lang -> number of filesystem writes under its directory
  yasked,     \* lang -> "no" (not prompted) | "pending" | the answer
  yfailed,    \* videos whose download failed
  \* ---- poses_to_videos.py
  ppc,        \* pose file -> "todo" | "prompt" | "read" | "save" | "update"
              \*              | "done": where its task stands
  tree,       \* the files under input_dir
  pose_files, \* the files os.walk keeps (line 121)
  preplace,   \* args.replace.lower(): "true" | "false" | "ask"
  n_jobs,     \* --n_jobs
  out0,       \* the output files existing before the run
  outFs,      \* the output files: [path, content, complete]
  pdirs,      \* the directories existing under output_dir
  pbar,       \* pbar.n
  pres,       \* pose file -> what its task did
  pasked,     \* pose file -> "no" (not prompted) | "pending" | the answer
  pwrites,    \* pose file -> number of filesystem writes of its task
  \* ---- seconds_to_hms applied to one value
  seconds,    \* the argument, in hundredths of a second
  hms         \* the string returned, <<>> before the call

anaVars == <<figs, apc, df, arow, arole, metadata_dict, df_metadata, probes,
             mcsv, stats>>

dgsVars == <<dpc, index, R, dgsRoot, ids, row, rowOpen, col, elem, attempt,
             filenames, paths, ledger, slotLog, lastSlot, dirs, files, csv,
             action, header, anaVars>>

ytVars == <<ypc, video_data, yreplace, ydir0, ydir, ytodo, ylang, ynext,
            total_pbar, ynet, ywrites, yasked, yfailed>>

poseVars == <<ppc, tree, pose_files, preplace, n_jobs, out0, outFs, pdirs,
              pbar, pres, pasked, pwrites>>

hmsVars == <<seconds, hms>>

vars == <<pipeline, dgsVars, ytVars, poseVars, hmsVars>>

\* ------------------------------------------------------ DGS helpers
\* download_data, lines 352-365: the labels given to the columns; of the nine
\* URL columns the model keeps two, both of them video roles
labels == <<"Video A", "Video Total">>

\* Headers the index page can carry: the expected one, one with two names
\* exchanged, one without 'Transcript', one column short, one column long
Headers ==
  { <<"Transcript", "Video A", "Video Total">>,
    <<"Transcript", "Video Total", "Video A">>,
    <<"Transkript", "Video A", "Video Total">>,
    <<"Transcript", "Video A">>,
    <<"Transcript", "Video A", "Video Total", "SRT">> }

has_column(h, name) == \E i \in 1..Len(h) : h[i] = name

\* repr() of a filename or None, as str() of a list writes its elements
repr(v) == IF v.k = "str" THEN <<"'">> \o v.s \o <<"'">>
           ELSE <<"N", "o", "n", "e">>

\* ', '.join of the repr of l[i..]
RECURSIVE repr_from(_, _)
repr_from(l, i) ==
  IF i > Len(l) THEN <<>>
  ELSE IF i = Len(l) THEN repr(l[i])
  ELSE repr(l[i]) \o <<",", " ">> \o repr_from(l, i + 1)

\* the field to_csv writes for a cell: nothing for None and NaN (na_rep is
\* ''), the string itself, str() of a list
to_csv_cell(v) ==
  CASE v.k = "str" -> v.s
    [] v.k = "list" -> <<"[">> \o repr_from(v.l, 1) \o <<"]">>
    [] OTHER -> <<>>

\* a merge that keeps only the entries with a downloaded resource
merge_downloaded(idl, ix, led) ==
  SelectSeq([i \in 1..Len(led) |->
               [id |-> idl[i], urls |-> ix[i].cells,
                base_dir |-> StrV(led[i].base_dir), paths |-> led[i].vals]],
            LAMBDA r : \E c \in 1..Len(r.paths) :
                         r.paths[c].k = "str"
                         \/ (r.paths[c].k = "list"
                              /\ \E e \in 1..Len(r.paths[c].l) :
                                   r.paths[c].l[e].k = "str"))

\* pd.merge(df, df_paths, left_index=True, right_index=True), line 369
merge(idl, ix, led) ==
  [i \in 1..Len(led) |->
     [id |-> idl[i], urls |-> ix[i].cells,
      base_dir |-> StrV(led[i].base_dir), paths |-> led[i].vals]]

\* every field written between quotes
to_csv_quoting(t) ==
  [i \in 1..Len(t) |->
     [id |-> t[i].id,
      urls |-> [c \in 1..Len(t[i].urls) |->
                  <<"'">> \o to_csv_cell(t[i].urls[c]) \o <<"'">>],
      base_dir |-> <<"'">> \o to_csv_cell(t[i].base_dir) \o <<"'">>,
      paths |-> [c \in 1..Len(t[i].paths) |->
                   <<"'">> \o to_csv_cell(t[i].paths[c]) \o <<"'">>]]]

\* df.to_csv, lines 375 and 405: every cell becomes a field of text
to_csv(t) ==
  [i \in 1..Len(t) |->
     [id |-> t[i].id,
      urls |-> [c \in 1..Len(t[i].urls) |-> to_csv_cell(t[i].urls[c])],
      base_dir |-> to_csv_cell(t[i].base_dir),
      paths |-> [c \in 1..Len(t[i].paths) |-> to_csv_cell(t[i].paths[c])]]]

\* fields read_csv takes for missing values (of the default list)
na_values == {<<>>, <<"N", "A">>, <<"n", "a", "n">>, <<"N", "a", "N">>}

\* a field read back by read_csv: NaN for a missing value, else the text
\* (no field of the model reads as a number)
read_csv_cell(t) == IF t \in na_values THEN FloatV ELSE StrV(t)

\* pd.read_csv(..., header=[0, 1], index_col=0), line 401
read_csv(f) ==
  [i \in 1..Len(f) |->
     [id |-> f[i].id,
      urls |-> [c \in 1..Len(f[i].urls) |-> read_csv_cell(f[i].urls[c])],
      base_dir |-> read_csv_cell(f[i].base_dir),
      paths |-> [c \in 1..Len(f[i].paths) |-> read_csv_cell(f[i].paths[c])]]]

titles == [i \in 1..Len(index) |-> index[i].title]
row_dir(i) == join(dgs_path, ids[i])
cell == index[row].cells[col]
ncols(i) == Len(index[i].cells)
cur_url == IF cell.k = "str" THEN cell.s ELSE cell.l[elem].s

NoSlot == [r |-> 0, c |-> 0, done |-> FALSE]

\* open(save_path, 'wb') followed by the chunk writes
write_file(fs, p, complete) ==
  {f \in fs : f.path # p} \cup {[path |-> p, complete |-> complete]}

\* log of the slot, started afresh when the slot's first call is made
log_now == IF lastSlot.r = row /\ lastSlot.c = col THEN slotLog ELSE <<>>

\* the loop running one time too many
attempts_left_off_by_one(att, max_retries) == att < max_retries

\* download_file, line 101: range(max_retries) has a value after `attempt`
attempts_left(att, max_retries) == att + 1 < max_retries

\* the filename recorded whether or not the download succeeded
single_value_unchecked(filename, downloaded) == StrV(filename)

\* download_file_row, line 149
single_value(filename, downloaded) ==
  IF downloaded THEN StrV(filename) ELSE NoneV

\* failed elements left out of the list
list_append_dropping(ps, filename, downloaded) ==
  IF downloaded THEN Append(ps, StrV(filename)) ELSE ps

\* download_file_row, line 159
list_append(ps, filename, downloaded) ==
  Append(ps, IF downloaded THEN StrV(filename) ELSE NoneV)

\* a cell of unexpected type taken for an absent resource
is_none_or_unknown(url) == url.k \notin {"str", "list"}

\* download_file_row, line 163: url is None
is_none(url) == url.k = "none"

\* the warning given only when every element failed
any_none_all(ps) == \A i \in 1..Len(ps) : ps[i].k = "none"

\* download_file_row, line 161: any(file is None for file in paths)
any_none(ps) == \E i \in 1..Len(ps) : ps[i].k = "none"

\* download_file, line 103: one call of requests.get
Call(ok) == <<"call", elem, ok>>

\* every warning worded as the final one
Warn_final_wording(kind) == <<"warn_final", elem, FALSE>>

\* download_file, lines 110 and 112: logging.warning
Warn(kind) == <<kind, elem, FALSE>>

AnaIdle ==
  /\ figs = "absent" /\ apc = "off" /\ df = <<>>
  /\ arow = 0 /\ arole = 0 /\ metadata_dict = <<>> /\ df_metadata = <<>>
  /\ probes = {} /\ mcsv = <<>> /\ stats = <<>>

\* the rows of IndexRows every cell of which is None, a str or a list
GoodRows ==
  {r \in IndexRows :
     \A c \in 1..Len(r.cells) : r.cells[c].k \in {"none", "str", "list"}}

\* the ledger value of a cell all of whose downloads succeeded (ok) or failed
value_of(cl, ok) ==
  CASE cl.k = "str" -> single_value(basename(cl.s), ok)
    [] cl.k = "list" ->
         ListV([e \in 1..Len(cl.l) |-> single_value(basename(cl.l[e].s), ok)])
    [] OTHER -> NoneV

\* the ledger of such a run over the index ix
ledger_of(ix, ok) ==
  [i \in 1..Len(ix) |->
     [base_dir |-> join(dgs_path, transcript_ids([j \in 1..Len(ix) |-> ix[j].title])[i]),
      vals |-> [c \in 1..Len(ix[i].cells) |-> value_of(ix[i].cells[c], ok)]]]

\* rows of the index of an earlier run: the good rows and a row with a
\* single link in either column
StoredRows ==
  GoodRows \cup {[title |-> TitleX, cells |-> <<StrV(U1), StrV(U2)>>]}

\* csv files an earlier download run can have left: every download of the
\* run succeeded, or every one failed
StoredTables ==
  { to_csv(merge(transcript_ids([j \in 1..Len(ix) |-> ix[j].title]), ix,
                 ledger_of(ix, ok))) :
      ix \in SeqsUpTo(StoredRows, MaxRows), ok \in BOOLEAN }

\* main, lines 415-421, with action 'analyse': download_data is not called,
\* the csv of an earlier run lies under dgs_path
AnalyseInit ==
  /\ pipeline = "dgs"
  /\ action = "analyse"
  /\ dpc = "skipped"
  /\ header = <<>> /\ index = <<>> /\ R = max_retries_default
  /\ dgsRoot = "old"
  /\ ids = <<>>
  /\ row = 0 /\ rowOpen = FALSE /\ col = 0 /\ elem = 0 /\ attempt = 0
  /\ filenames = <<>> /\ paths = <<>> /\ ledger = <<>>
  /\ slotLog = <<>> /\ lastSlot = NoSlot
  /\ dirs = {} /\ files = {}
  /\ csv \in StoredTables
  /\ figs \in {"absent", "old"}
  /\ apc = "off" /\ df = <<>>
  /\ arow = 0 /\ arole = 0 /\ metadata_dict = <<>> /\ df_metadata = <<>>
  /\ probes = {} /\ mcsv = <<>> /\ stats = <<>>

\* main, lines 415-418, with action 'download' or 'both'
DgsInit ==
  /\ pipeline = "dgs"
  /\ dpc = "start"
  /\ action \in {"download", "both"}
  /\ header \in Headers
  /\ AnaIdle
  /\ index \in SeqsUpTo(IndexRows, MaxRows)
  /\ R \in 1..max_retries_default
  /\ dgsRoot \in {"absent", "old"}
  /\ ids = <<>>
  /\ row = 0 /\ rowOpen = FALSE /\ col = 0 /\ elem = 0 /\ attempt = 0
  /\ filenames = <<>> /\ paths = <<>> /\ ledger = <<>>
  /\ slotLog = <<>> /\ lastSlot = NoSlot
  /\ dirs = {} /\ files = {} /\ csv = <<>>

\* ------------------------------------------------------ DGS actions
\* download_data, lines 346-365: the directory is made, the table scraped,
\* the identifiers assigned and the columns relabelled by position; then
\* download_file_row is applied to the rows.  df['Transcript'] raises a
\* KeyError when no column has that name, the assignment to df.columns a
\* ValueError when the number of columns is not the number of labels.
start_rows ==
  /\ dgsRoot' = "fresh"
  /\ IF ~has_column(header, "Transcript")
     THEN /\ dpc' = "schema_error"
          /\ UNCHANGED <<ids, row, header>>
     ELSE IF Len(header) - 1 # Len(labels)
     THEN /\ dpc' = "schema_error"
          /\ ids' = transcript_ids(titles)
          /\ UNCHANGED <<row, header>>
     ELSE /\ dpc' = "rows"
          /\ ids' = transcript_ids(titles)
          /\ header' = <<"Transcript">> \o labels
          /\ row' = 1
  /\ UNCHANGED <<pipeline, ytVars, poseVars, hmsVars, action, anaVars, index,
                 R, rowOpen, col, elem, attempt, filenames, paths, ledger,
                 slotLog, lastSlot, dirs, files, csv>>

\* download_data, lines 336-337: the path exists, the user is asked
DD_Prompt ==
  /\ pipeline = "dgs" /\ dpc = "start" /\ dgsRoot = "old"
  /\ dpc' = "prompt"
  /\ UNCHANGED <<pipeline, ytVars, poseVars, hmsVars, action, header,
                 anaVars, index, R, dgsRoot, ids, row,
                 rowOpen, col, elem, attempt, filenames, paths, ledger,
                 slotLog, lastSlot, dirs, files, csv>>

\* download_data, lines 338-344: 'yes' removes the tree and goes on, any
\* other answer exits
DD_Answer(yes) ==
  /\ pipeline = "dgs" /\ dpc = "prompt"
  /\ IF yes THEN start_rows
     ELSE /\ dpc' = "aborted"
          /\ UNCHANGED <<pipeline, ytVars, poseVars, hmsVars, action, header,
                         anaVars, index, R, dgsRoot, ids,
                         row, rowOpen, col, elem, attempt, filenames, paths,
                         ledger, slotLog, lastSlot, dirs, files, csv>>

\* download_data when the path does not exist
DD_Fresh ==
  /\ pipeline = "dgs" /\ dpc = "start" /\ dgsRoot = "absent"
  /\ start_rows

\* download_file_row, lines 139-141
BeginRow ==
  /\ pipeline = "dgs" /\ dpc = "rows" /\ ~rowOpen /\ row <= Len(index)
  /\ rowOpen' = TRUE
  /\ col' = 1 /\ elem' = 1 /\ attempt' = 0
  /\ filenames' = <<>> /\ paths' = <<>>
  /\ dirs' = dirs \cup {row_dir(row)}
  /\ UNCHANGED <<pipeline, ytVars, poseVars, hmsVars, action, header,
                 anaVars, dpc, index, R, dgsRoot, ids, row,
                 ledger, slotLog, lastSlot, files, csv>>

\* One iteration of the loop of download_file (lines 101-114) for the URL at
\* hand, and, when download_file returns, the caller's lines 149-151 (str
\* cell) or 159-162 (list cell).  out is what the network does:
\*   "ok"      the response is read and written,
\*   "fail"    requests.get / raise_for_status raises,
\*   "partial" iter_content raises after the file was opened.
Attempt(out) ==
  /\ pipeline = "dgs" /\ dpc = "rows" /\ rowOpen /\ col <= ncols(row)
  /\ cell.k \in {"str", "list"}
  /\ LET filename == basename(cur_url)
         filepath == join(row_dir(row), filename)
         ok == out = "ok"
         last == ~attempts_left(attempt, R)
         returned == ok \/ last
         log1 == Append(log_now, Call(ok))
         log2 == IF ok THEN log1 ELSE Append(log1, Warn("warn_attempt"))
         log3 == IF ~ok /\ last THEN Append(log2, Warn("warn_final")) ELSE log2
         paths2 == list_append(paths, filename, ok)
     IN
     /\ files' = IF out = "fail" THEN files
                 ELSE write_file(files, filepath, ok)
     /\ IF ~returned
        THEN /\ attempt' = attempt + 1
             /\ slotLog' = log3
             /\ lastSlot' = [r |-> row, c |-> col, done |-> FALSE]
             /\ UNCHANGED <<col, elem, filenames, paths>>
        ELSE IF cell.k = "str"
        THEN /\ filenames' = Append(filenames, single_value(filename, ok))
             /\ slotLog' = IF ok THEN log3
                           ELSE Append(log3, <<"warn_slot", 0, FALSE>>)
             /\ lastSlot' = [r |-> row, c |-> col, done |-> TRUE]
             /\ col' = col + 1 /\ elem' = 1 /\ attempt' = 0
             /\ UNCHANGED paths
        ELSE IF elem < Len(cell.l)
        THEN /\ paths' = paths2
             /\ elem' = elem + 1 /\ attempt' = 0
             /\ slotLog' = log3
             /\ lastSlot' = [r |-> row, c |-> col, done |-> FALSE]
             /\ UNCHANGED <<col, filenames>>
        ELSE /\ filenames' = Append(filenames, ListV(paths2))
             /\ paths' = <<>>
             /\ slotLog' = IF any_none(paths2)
                           THEN Append(log3, <<"warn_group", 0, FALSE>>)
                           ELSE log3
             /\ lastSlot' = [r |-> row, c |-> col, done |-> TRUE]
             /\ col' = col + 1 /\ elem' = 1 /\ attempt' = 0
  /\ UNCHANGED <<pipeline, ytVars, poseVars, hmsVars, action, header,
                 anaVars, dpc, index, R, dgsRoot, ids, row,
                 rowOpen, ledger, dirs, csv>>

\* download_file_row, lines 163-164: url is None
SlotNone ==
  /\ pipeline = "dgs" /\ dpc = "rows" /\ rowOpen /\ col <= ncols(row)
  /\ is_none(cell)
  /\ filenames' = Append(filenames, NoneV)
  /\ slotLog' = <<>>
  /\ lastSlot' = [r |-> row, c |-> col, done |-> TRUE]
  /\ col' = col + 1
  /\ UNCHANGED <<pipeline, ytVars, poseVars, hmsVars, action, header,
                 anaVars, dpc, index, R, dgsRoot, ids, row,
                 rowOpen, elem, attempt, paths, ledger, dirs, files, csv>>

\* download_file_row, lines 165-166: the TypeError leaves download_file_row,
\* progress_apply and download_data, none of which catches it
SlotTypeError ==
  /\ pipeline = "dgs" /\ dpc = "rows" /\ rowOpen /\ col <= ncols(row)
  /\ cell.k \notin {"str", "list"} /\ ~is_none(cell)
  /\ dpc' = "crashed"
  /\ UNCHANGED <<pipeline, ytVars, poseVars, hmsVars, action, header,
                 anaVars, index, R, dgsRoot, ids, row,
                 rowOpen, col, elem, attempt, filenames, paths, ledger,
                 slotLog, lastSlot, dirs, files, csv>>

\* download_file_row, line 168
ReturnRow ==
  /\ pipeline = "dgs" /\ dpc = "rows" /\ rowOpen /\ col > ncols(row)
  /\ ledger' = Append(ledger, [base_dir |-> row_dir(row), vals |-> filenames])
  /\ rowOpen' = FALSE
  /\ row' = row + 1
  /\ UNCHANGED <<pipeline, ytVars, poseVars, hmsVars, action, header,
                 anaVars, dpc, index, R, dgsRoot, ids, col,
                 elem, attempt, filenames, paths, slotLog, lastSlot, dirs,
                 files, csv>>

\* download_data, lines 369-376: merge on the index and write the csv
Persist ==
  /\ pipeline = "dgs" /\ dpc = "rows" /\ ~rowOpen /\ row > Len(index)
  /\ csv' = to_csv(merge(ids, index, ledger))
  /\ dpc' = "saved"
  /\ UNCHANGED <<pipeline, ytVars, poseVars, hmsVars, action, header,
                 anaVars, index, R, dgsRoot, ids, row,
                 rowOpen, col, elem, attempt, filenames, paths, ledger,
                 slotLog, lastSlot, dirs, files>>

\* ------------------------------------------------ DGS analyse phase
\* extract_metadata, line 206; the model keeps the roles its columns carry
video_types == <<"Video A", "Video Total">>

column_of(name) == CHOOSE c \in 1..Len(labels) : labels[c] = name

\* read_csv makes a column of dtype object when one of its fields is text
\* and of dtype float64 when every field is missing
column_is_object(t, c) == \E i \in 1..Len(t) : t[i].paths[c].k = "str"

\* extract_metadata, line 211: filename is np.nan.  In a column of dtype
\* object the missing values are np.nan itself; the row that apply builds
\* from a float64 column holds new float objects, which are not np.nan
is_np_nan(t, i, c) == t[i].paths[c].k = "float" /\ column_is_object(t, c)

\* durations ffmpeg.probe reports, in hundredths of a second
Durations == {4550}

Meta(d) == [k |-> "meta", dur |-> d, dims |-> <<640, 480>>]
NullMeta == [k |-> "null", dur |-> 0, dims |-> <<>>]
NoMeta == [k |-> "none", dur |-> 0, dims |-> <<>>]
Unset == [k |-> "unset", dur |-> 0, dims |-> <<>>]

\* what ffmpeg.probe can do with a file name: str() of a list names no file
probe_outcomes(filename) ==
  IF filename[1] = "[" THEN {"error"} ELSE {"ok", "no_video", "error"}

\* a failed probe reported as a video of length 0
get_video_metadata_zero(out, d) == Meta(0)

\* get_video_metadata, lines 180-193: None when there is no video stream and
\* when ffmpeg.probe or a conversion raises
get_video_metadata(out, d) == IF out = "ok" THEN Meta(d) ELSE NoMeta

\* extract_metadata, lines 217-219: `if metadata:` sets the two keys
dict_entry(metadata) == IF metadata.k = "none" THEN Unset ELSE metadata

\* analyze_data, lines 397-402, once the directory question is settled
analyze_start ==
  /\ figs' = "fresh"
  /\ df' = read_csv(csv)
  /\ apc' = "extract"
  /\ arow' = 1 /\ arole' = 1
  /\ UNCHANGED <<pipeline, ytVars, poseVars, hmsVars, action, header, dpc,
                 index, R, dgsRoot, ids, ledger, dirs, files, csv,
                 metadata_dict, df_metadata, probes, mcsv, stats>>

\* the declined download returning to main instead of leaving the program
analyze_data_called_after_abort(act, pc) ==
  \/ act = "both" /\ pc \in {"saved", "aborted"}
  \/ act = "analyse" /\ pc = "skipped"

\* main, lines 417-421: control reaches the call of analyze_data when the
\* action asks for it and download_data has returned or was not called;
\* sys.exit() (line 344) and an exception leave main before line 420
analyze_data_called(act, pc) ==
  \/ act = "both" /\ pc = "saved"
  \/ act = "analyse" /\ pc = "skipped"

\* main, lines 420-421, and analyze_data, lines 386-387; download_data has
\* returned (or was not called), what it kept in its local variables is gone
A_Begin ==
  /\ pipeline = "dgs" /\ apc = "off"
  /\ analyze_data_called(action, dpc)
  /\ row' = 0 /\ rowOpen' = FALSE /\ col' = 0 /\ elem' = 0 /\ attempt' = 0
  /\ filenames' = <<>> /\ paths' = <<>>
  /\ slotLog' = <<>> /\ lastSlot' = NoSlot
  /\ IF figs = "old"
     THEN /\ apc' = "prompt"
          /\ UNCHANGED <<pipeline, ytVars, poseVars, hmsVars, action, header,
                         dpc, index, R, dgsRoot, ids, ledger, dirs, files,
                         csv, figs, df, arow, arole, metadata_dict,
                         df_metadata, probes, mcsv, stats>>
     ELSE analyze_start

\* analyze_data, lines 388-395: 'yes' empties the directory and goes on, any
\* other answer returns
A_Answer(yes) ==
  /\ pipeline = "dgs" /\ apc = "prompt"
  /\ IF yes THEN analyze_start
     ELSE /\ apc' = "aborted"
          /\ UNCHANGED <<pipeline, ytVars, poseVars, hmsVars, action, header,
                         dpc, index, R, dgsRoot, ids, ledger, dirs, files,
                         csv, figs, df, arow, arole, metadata_dict,
                         df_metadata, probes, mcsv, stats>>
  /\ UNCHANGED <<row, rowOpen, col, elem, attempt, filenames, paths, slotLog,
                 lastSlot>>

\* One iteration of the loop of extract_metadata (lines 208-219) and, after
\* the last role, its return (line 221).  out is what ffmpeg.probe does
\* ("none" when it is not called), d the duration it reports.
A_Role(out, d) ==
  /\ pipeline = "dgs" /\ apc = "extract" /\ arow <= Len(df)
  /\ LET c == column_of(video_types[arole])
         filename == df[arow].paths[c]
         skip == is_np_nan(df, arow, c)
         raises == ~skip /\ filename.k # "str"
         metadata == IF skip THEN NullMeta ELSE get_video_metadata(out, d)
         dict == Append(metadata_dict, dict_entry(metadata))
     IN
     /\ (out = "ok") <=> (d \in Durations)
     /\ IF skip \/ raises THEN out = "none"
        ELSE out \in probe_outcomes(filename.s)
     /\ IF raises
        THEN /\ apc' = "crashed"
             /\ UNCHANGED <<arow, arole, metadata_dict, df_metadata, probes>>
        ELSE /\ probes' = IF skip THEN probes
                          ELSE probes \cup {[r |-> arow, role |-> arole]}
             /\ IF arole < Len(video_types)
                THEN /\ arole' = arole + 1
                     /\ metadata_dict' = dict
                     /\ UNCHANGED <<arow, df_metadata>>
                ELSE /\ df_metadata' = Append(df_metadata, dict)
                     /\ metadata_dict' = <<>>
                     /\ arole' = 1 /\ arow' = arow + 1
             /\ UNCHANGED apc
  /\ UNCHANGED <<pipeline, ytVars, poseVars, hmsVars, action, header, dpc,
                 index, R, dgsRoot, ids, row, rowOpen, col, elem, attempt,
                 filenames, paths, ledger, slotLog, lastSlot, dirs, files,
                 csv, figs, df, mcsv, stats>>

\* the durations of the 'Video Total' column that are numbers
total_durations(dm) ==
  LET c == CHOOSE a \in 1..Len(video_types) : video_types[a] = "Video Total"
      rs == SelectSeq(dm, LAMBDA m : m[c].k = "meta")
  IN [i \in 1..Len(rs) |-> rs[i][c].dur]

RECURSIVE sum(_)
sum(q) == IF q = <<>> THEN 0 ELSE q[1] + sum(Tail(q))

\* print_video_duration_stats, lines 255-270; every probe of the model
\* reports the same duration, so the mean and the median are that duration
\* and the standard deviation is 0
duration_stats(q) ==
  << str(Len(q)), seconds_to_hms(sum(q) \div Len(q)), seconds_to_hms(0),
     seconds_to_hms(q[1]), seconds_to_hms(q[1]), seconds_to_hms(q[1]),
     seconds_to_hms(sum(q)) >>

\* the field to_csv writes for a duration
duration_field(m) == IF m.k = "meta" THEN repr_float(m.dur) ELSE <<>>

\* analyze_data, lines 403-409: the merged table is written, the statistics
\* are printed and the figures drawn.  The standard deviation of fewer than
\* two durations is NaN and a column no row has set is missing: int() of
\* NaN and the lookup of the column raise after the csv is written.
A_Finish ==
  /\ pipeline = "dgs" /\ apc = "extract" /\ arow > Len(df)
  /\ mcsv' = [i \in 1..Len(df) |->
                [row |-> to_csv(df)[i],
                 meta |-> [a \in 1..Len(video_types) |->
                             duration_field(df_metadata[i][a])]]]
  /\ IF Len(total_durations(df_metadata)) >= 2
     THEN /\ stats' = duration_stats(total_durations(df_metadata))
          /\ apc' = "done"
     ELSE /\ apc' = "report_crashed"
          /\ UNCHANGED stats
  /\ UNCHANGED <<pipeline, ytVars, poseVars, hmsVars, action, header, dpc,
                 index, R, dgsRoot, ids, row, rowOpen, col, elem, attempt,
                 filenames, paths, ledger, slotLog, lastSlot, dirs, files,
                 csv, figs, df, arow, arole, metadata_dict, df_metadata,
                 probes>>

\* the steps of download_data
DownloadNext ==
  \/ DD_Prompt
  \/ \E yes \in BOOLEAN : DD_Answer(yes)
  \/ DD_Fresh
  \/ BeginRow
  \/ \E out \in {"ok", "fail", "partial"} : Attempt(out)
  \/ SlotNone
  \/ SlotTypeError
  \/ ReturnRow
  \/ Persist

\* the steps of analyze_data
AnalyseNext ==
  \/ A_Begin
  \/ \E yes \in BOOLEAN : A_Answer(yes)
  \/ \E out \in {"none", "ok", "no_video", "error"}, d \in Durations \cup {0} :
       A_Role(out, d)
  \/ A_Finish

DgsNext == DownloadNext \/ AnalyseNext

\* ------------------------------------------------------ YouTube-SL-25
Languages == {"en", "de"}

NoDir == [exists |-> FALSE, files |-> {}]
OldDir == [exists |-> TRUE, files |-> {"old"}]
EmptyDir == [exists |-> TRUE, files |-> {}]

\* lang_videos, line 131
lang_videos(l) == {v \in 1..Len(video_data) : video_data[v] = l}

DgsIdle ==
  /\ dpc = "idle" /\ index = <<>> /\ R = 0 /\ dgsRoot = "absent"
  /\ action = "" /\ header = <<>> /\ AnaIdle
  /\ ids = <<>>
  /\ row = 0 /\ rowOpen = FALSE /\ col = 0 /\ elem = 0 /\ attempt = 0
  /\ filenames = <<>> /\ paths = <<>> /\ ledger = <<>>
  /\ slotLog = <<>> /\ lastSlot = NoSlot
  /\ dirs = {} /\ files = {} /\ csv = <<>>

YtIdle ==
  /\ ypc = "idle" /\ video_data = <<>> /\ yreplace = "skip"
  /\ ydir0 = {} /\ ydir = [l \in Languages |-> NoDir]
  /\ ytodo = {} /\ ylang = "" /\ ynext = {}
  /\ total_pbar = 0
  /\ ynet = [l \in Languages |-> 0] /\ ywrites = [l \in Languages |-> 0]
  /\ yasked = [l \in Languages |-> "no"]
  /\ yfailed = {}

\* main, lines 115-129: the csv is read, the set of languages is built
YtInit ==
  /\ pipeline = "yt"
  /\ ypc = "loop"
  /\ video_data \in SeqsUpTo(Languages, MaxVideos)
  /\ yreplace \in {"all", "skip", "custom"}
  /\ ydir0 \in SUBSET Languages
  /\ ydir = [l \in Languages |-> IF l \in ydir0 THEN OldDir ELSE NoDir]
  /\ ytodo = {video_data[v] : v \in 1..Len(video_data)}
  /\ ylang = "" /\ ynext = {}
  /\ total_pbar = 0
  /\ ynet = [l \in Languages |-> 0] /\ ywrites = [l \in Languages |-> 0]
  /\ yasked = [l \in Languages |-> "no"]
  /\ yfailed = {}

\* 'skip' treated like 'all'
handle_existing_directory_no_skip(replace_option, choice) ==
  IF replace_option \in {"all", "skip"} THEN TRUE ELSE choice = "y"

\* under 'custom' every answer taken for a yes
handle_existing_directory_any_answer(replace_option, choice) ==
  IF replace_option = "skip" THEN FALSE ELSE TRUE

\* handle_existing_directory, lines 96-109: the value returned, given the
\* answer typed when the option is 'custom'
handle_existing_directory(replace_option, choice) ==
  IF replace_option = "all" THEN TRUE
  ELSE IF replace_option = "skip" THEN FALSE
  ELSE choice = "y"

\* end of one iteration of the for loop over the languages
yt_after(l) ==
  /\ ytodo' = ytodo \ {l}
  /\ ypc' = IF ytodo \ {l} = {} THEN "done" ELSE "loop"

\* lines 136-138: the language is skipped
yt_skip(l) ==
  /\ total_pbar' = total_pbar + Cardinality(lang_videos(l))
  /\ yt_after(l)
  /\ UNCHANGED <<ydir, ylang, ynext, ynet, ywrites, yfailed>>

\* lines 97-99 / 105-107 (rm -rf and create_directory), then line 142
yt_replace(l) ==
  /\ ydir' = [ydir EXCEPT ![l] = EmptyDir]
  /\ ywrites' = [ywrites EXCEPT ![l] = @ + 2]
  /\ ylang' = l /\ ynext' = lang_videos(l)
  /\ ypc' = "videos"
  /\ UNCHANGED <<ytodo, total_pbar, ynet, yfailed>>

\* main, lines 130-140: one language is taken from the set; its directory is
\* created, replaced or skipped, or the user is asked
YT_Language(l) ==
  /\ pipeline = "yt" /\ ypc = "loop" /\ l \in ytodo
  /\ IF ~ydir[l].exists
     THEN /\ ydir' = [ydir EXCEPT ![l] = EmptyDir]
          /\ ywrites' = [ywrites EXCEPT ![l] = @ + 1]
          /\ ylang' = l /\ ynext' = lang_videos(l)
          /\ ypc' = "videos"
          /\ UNCHANGED <<ytodo, total_pbar, ynet, yasked, yfailed>>
     ELSE IF yreplace = "custom"
     THEN /\ ypc' = "prompt" /\ ylang' = l
          /\ yasked' = [yasked EXCEPT ![l] = "pending"]
          /\ UNCHANGED <<ydir, ytodo, ynext, total_pbar, ynet, ywrites,
                         yfailed>>
     ELSE /\ IF handle_existing_directory(yreplace, "")
             THEN yt_replace(l) ELSE yt_skip(l)
          /\ UNCHANGED yasked
  /\ UNCHANGED <<pipeline, dgsVars, poseVars, hmsVars, video_data, yreplace, ydir0>>

\* handle_existing_directory, lines 103-109: the answer arrives
YT_Answer(choice) ==
  /\ pipeline = "yt" /\ ypc = "prompt"
  /\ yasked' = [yasked EXCEPT ![ylang] = choice]
  /\ IF handle_existing_directory(yreplace, choice)
     THEN yt_replace(ylang) ELSE yt_skip(ylang)
  /\ UNCHANGED <<pipeline, dgsVars, poseVars, hmsVars, video_data, yreplace, ydir0>>

\* main, lines 143-146, with download_video, lines 43-53: every exception
\* is caught and reported
YT_DownloadVideo(v, ok) ==
  /\ pipeline = "yt" /\ ypc = "videos" /\ v \in ynext
  /\ \A w \in ynext : v <= w
  /\ ynet' = [ynet EXCEPT ![ylang] = @ + 1]
  /\ IF ok
     THEN /\ ydir' = [ydir EXCEPT ![ylang].files = @ \cup {v}]
          /\ ywrites' = [ywrites EXCEPT ![ylang] = @ + 1]
          /\ UNCHANGED yfailed
     ELSE /\ yfailed' = yfailed \cup {v}
          /\ UNCHANGED <<ydir, ywrites>>
  /\ total_pbar' = total_pbar + 1
  /\ ynext' = ynext \ {v}
  /\ IF ynext \ {v} = {} THEN yt_after(ylang)
     ELSE UNCHANGED <<ypc, ytodo>>
  /\ UNCHANGED <<pipeline, dgsVars, poseVars, hmsVars, video_data, yreplace, ydir0,
                 ylang, yasked>>

YtNext ==
  \/ \E l \in Languages : YT_Language(l)
  \/ \E choice \in {"y", "n"} : YT_Answer(choice)
  \/ \E v \in 1..MaxVideos, ok \in BOOLEAN : YT_DownloadVideo(v, ok)

\* ------------------------------------------------------ poses_to_videos
input_dir == <<"i">>
output_dir == <<"o">>
pose_ext == <<".", "p", "o", "s", "e">>
mp4_ext == <<".", "m", "p", "4">>

\* index of the last "." of p, 0 if none
RECURSIVE rfind_dot(_, _)
rfind_dot(p, i) == IF i = 0 THEN 0
                   ELSE IF p[i] = "." THEN i ELSE rfind_dot(p, i - 1)

\* os.path.splitext: <<root, ext>>; the leading dots of the last component
\* belong to the root
splitext(p) ==
  LET sep == rfind_sep(p, Len(p))
      dot == rfind_dot(p, Len(p))
  IN IF dot > sep /\ \E j \in (sep + 1)..(dot - 1) : p[j] # "."
     THEN <<SubSeq(p, 1, dot - 1), SubSeq(p, dot, Len(p))>>
     ELSE <<p, <<>>>>

\* os.path.dirname
dirname(p) == SubSeq(p, 1, rfind_sep(p, Len(p)) - 1)

\* os.path.relpath(p, start) for a path p that os.walk(start) produced
relpath(p, start) == SubSeq(p, Len(start) + 2, Len(p))

\* the output named after the file name alone, directories dropped
output_video_path_flat(pf) ==
  join(output_dir, splitext(basename(pf))[1] \o mp4_ext)

\* process_file, lines 97-98
output_video_path(pf) ==
  join(output_dir, splitext(relpath(pf, input_dir))[1] \o mp4_ext)

\* files the input directory may hold
InputFiles ==
  { input_dir \o <<"/", "a">> \o pose_ext,
    input_dir \o <<"/", "s", "/", "a">> \o pose_ext,
    input_dir \o <<"/", "a", ".", "b">> \o pose_ext,
    input_dir \o <<"/", "a">> \o mp4_ext }

\* main, line 121
walk_pose_files(t) == {p \in t : splitext(basename(p))[2] = pose_ext}

old_file(p) == [path |-> p, content |-> <<"old">>, complete |-> TRUE]

PoseIdle ==
  /\ ppc = <<>> /\ tree = {} /\ pose_files = {} /\ preplace = "false"
  /\ n_jobs = 0 /\ out0 = {} /\ outFs = {} /\ pdirs = {}
  /\ pbar = 0 /\ pres = <<>> /\ pasked = <<>> /\ pwrites = <<>>

\* main, lines 114-123
PoseInit ==
  /\ pipeline = "poses"
  /\ tree \in {t \in SUBSET InputFiles : Cardinality(t) \in 1..MaxFiles}
  /\ pose_files = walk_pose_files(tree)
  /\ preplace \in {"true", "false", "ask"}
  /\ n_jobs \in 1..MaxJobs
  /\ out0 \in SUBSET {output_video_path(pf) : pf \in pose_files}
  /\ outFs = {old_file(p) : p \in out0}
  /\ pdirs = {dirname(p) : p \in out0}
  /\ ppc = [pf \in pose_files |-> "todo"]
  /\ pbar = 0
  /\ pres = [pf \in pose_files |-> "none"]
  /\ pasked = [pf \in pose_files |-> "no"]
  /\ pwrites = [pf \in pose_files |-> 0]

\* check_output_file, lines 35-49: the value returned, given the answer typed
\* when the option is 'ask'
check_output_file(exists, replace_option, response) ==
  IF exists
  THEN IF replace_option = "true" THEN TRUE
       ELSE IF replace_option = "ask" THEN response = "y"
       ELSE FALSE
  ELSE TRUE

out_exists(p) == \E f \in outFs : f.path = p

running == {pf \in pose_files : ppc[pf] \notin {"todo", "done"}}

\* process_file after check_output_file has returned
after_check(pf, go) ==
  /\ ppc' = [ppc EXCEPT ![pf] = IF go THEN "read" ELSE "update"]
  /\ pres' = [pres EXCEPT ![pf] = IF go THEN @ ELSE "skipped"]

\* a worker of Parallel takes the task of pf: process_file, lines 97-101,
\* and check_output_file up to its return or its call of input()
P_Start(pf) ==
  /\ pipeline = "poses" /\ pf \in pose_files /\ ppc[pf] = "todo"
  /\ Cardinality(running) < n_jobs
  /\ LET path == output_video_path(pf)
         dir == dirname(path)
     IN /\ pdirs' = pdirs \cup {dir}
        /\ pwrites' = [pwrites EXCEPT ![pf] = IF dir \in pdirs THEN @ ELSE @ + 1]
        /\ IF out_exists(path) /\ preplace = "ask"
           THEN /\ ppc' = [ppc EXCEPT ![pf] = "prompt"]
                /\ pasked' = [pasked EXCEPT ![pf] = "pending"]
                /\ UNCHANGED pres
           ELSE /\ after_check(pf, check_output_file(out_exists(path), preplace, ""))
                /\ UNCHANGED pasked
  /\ UNCHANGED <<pipeline, dgsVars, ytVars, hmsVars, tree, pose_files, preplace,
                 n_jobs, out0, outFs, pbar>>

\* check_output_file, lines 40-45: the answer arrives
P_Answer(pf, response) ==
  /\ pipeline = "poses" /\ pf \in pose_files /\ ppc[pf] = "prompt"
  /\ pasked' = [pasked EXCEPT ![pf] = response]
  /\ after_check(pf, check_output_file(TRUE, preplace, response))
  /\ UNCHANGED <<pipeline, dgsVars, ytVars, hmsVars, tree, pose_files, preplace,
                 n_jobs, out0, outFs, pdirs, pbar, pwrites>>

\* process_file, lines 104-106, with read_pose_file, lines 61-67
P_Read(pf, ok) ==
  /\ pipeline = "poses" /\ pf \in pose_files /\ ppc[pf] = "read"
  /\ ppc' = [ppc EXCEPT ![pf] = IF ok THEN "save" ELSE "update"]
  /\ pres' = [pres EXCEPT ![pf] = IF ok THEN @ ELSE "read_fail"]
  /\ UNCHANGED <<pipeline, dgsVars, ytVars, hmsVars, tree, pose_files, preplace,
                 n_jobs, out0, outFs, pdirs, pbar, pasked, pwrites>>

\* process_file, line 108, with save_pose_video, lines 77-85: every
\* exception is caught; a failing save may leave the file untouched ("fail")
\* or half written ("partial")
P_Save(pf, out) ==
  /\ pipeline = "poses" /\ pf \in pose_files /\ ppc[pf] = "save"
  /\ LET path == output_video_path(pf)
         new == [path |-> path, content |-> pf, complete |-> out = "ok"]
     IN outFs' = IF out = "fail" THEN outFs
                 ELSE {f \in outFs : f.path # path} \cup {new}
  /\ pwrites' = [pwrites EXCEPT ![pf] = IF out = "fail" THEN @ ELSE @ + 1]
  /\ pres' = [pres EXCEPT ![pf] = out]
  /\ ppc' = [ppc EXCEPT ![pf] = "update"]
  /\ UNCHANGED <<pipeline, dgsVars, ytVars, hmsVars, tree, pose_files, preplace,
                 n_jobs, out0, pdirs, pbar, pasked>>

\* main, lines 124-125: Parallel(n_jobs = 1) calls the lambda in the process
\* of main; with n_jobs > 1 the lambda and the pbar its closure holds are
\* pickled and sent to a worker process
in_main_process(jobs) == jobs = 1

\* main, line 125: pbar.update() after process_file returned; in a worker
\* process it advances the worker's copy, the pbar of main stays as it is
P_Update(pf) ==
  /\ pipeline = "poses" /\ pf \in pose_files /\ ppc[pf] = "update"
  /\ pbar' = IF in_main_process(n_jobs) THEN pbar + 1 ELSE pbar
  /\ ppc' = [ppc EXCEPT ![pf] = "done"]
  /\ UNCHANGED <<pipeline, dgsVars, ytVars, hmsVars, tree, pose_files, preplace,
                 n_jobs, out0, outFs, pdirs, pres, pasked, pwrites>>

PoseNext ==
  \/ \E pf \in InputFiles : P_Start(pf)
  \/ \E pf \in InputFiles, response \in {"y", "n"} : P_Answer(pf, response)
  \/ \E pf \in InputFiles, ok \in BOOLEAN : P_Read(pf, ok)
  \/ \E pf \in InputFiles, out \in {"ok", "fail", "partial"} : P_Save(pf, out)
  \/ \E pf \in InputFiles : P_Update(pf)

\* ------------------------------------------------------ seconds_to_hms
\* the durations the function is applied to, in hundredths of a second
HmsInputs ==
  { h * 360000 + m * 6000 + s :
      h \in 0..MaxHours, m \in {0, 1, 59}, s \in {0, 100, 4550, 5999} }

HmsIdle == seconds = 0 /\ hms = <<>>

HmsInit ==
  /\ pipeline = "hms"
  /\ seconds \in HmsInputs
  /\ hms = <<>>

\* seconds_to_hms(seconds) is called and returns
Hms_Call ==
  /\ pipeline = "hms" /\ hms = <<>>
  /\ hms' = seconds_to_hms(seconds)
  /\ UNCHANGED <<pipeline, dgsVars, ytVars, poseVars, seconds>>


Init ==
  \/ DgsInit /\ YtIdle /\ PoseIdle /\ HmsIdle
  \/ AnalyseInit /\ YtIdle /\ PoseIdle /\ HmsIdle
  \/ YtInit /\ DgsIdle /\ PoseIdle /\ HmsIdle
  \/ PoseInit /\ DgsIdle /\ YtIdle /\ HmsIdle
  \/ HmsInit /\ DgsIdle /\ YtIdle /\ PoseIdle

Next == DgsNext \/ YtNext \/ PoseNext \/ Hms_Call

Spec == Init /\ [][Next]_vars

\* A run with action 'download'.  The program runs on as long as it has a
\* step to take: the loops of download_file and download_file_row are
\* sequential and nothing in them waits (requests.get returns or raises).
DownloadInit ==
  DgsInit /\ action = "download" /\ YtIdle /\ PoseIdle /\ HmsIdle

FairSpec ==
  DownloadInit /\ [][DownloadNext]_vars /\ WF_vars(DownloadNext)

\* ====================================================== properties
cell_at(r, c) == index[r].cells[c]

\* the ledger value of slot (r, c), from the returned row or, while the row
\* is still being downloaded, from the dict under construction
slot_value(r, c) ==
  IF r <= Len(ledger) THEN ledger[r].vals[c] ELSE filenames[c]

\* the outcomes of the network calls logged for element e of the last slot
calls_of(e) ==
  LET cs == SelectSeq(slotLog, LAMBDA ev : ev[1] = "call" /\ ev[2] = e)
  IN [i \in 1..Len(cs) |-> cs[i][3]]

same_shape(cl, val) ==
  CASE cl.k = "none" -> val = NoneV
    [] cl.k = "str" -> val.k \in {"str", "none"} /\ val.l = <<>>
    [] cl.k = "list" -> /\ val.k = "list"
                        /\ Len(val.l) = Len(cl.l)
                        /\ \A i \in 1..Len(val.l) : val.l[i].k \in {"str", "none"}
    [] OTHER -> FALSE

\* C1: every ledger entry download_file_row has returned has one value per
\* resource slot of its catalog entry, and the value has the slot's shape:
\* None for an absent slot, a filename or None for a single slot, a list of
\* the same length (of filenames or None) for a multiple slot.
C1_LedgerShape ==
  pipeline = "dgs" =>
    \A i \in 1..Len(ledger) :
      /\ Len(ledger[i].vals) = ncols(i)
      /\ \A c \in 1..ncols(i) : same_shape(cell_at(i, c), ledger[i].vals[c])

\* a returned entry whose list slot holds a filename and a None
C1_Witness ==
  /\ pipeline = "dgs"
  /\ \E i \in 1..Len(ledger) : \E c \in 1..ncols(i) :
       /\ cell_at(i, c).k = "list"
       /\ \E a, b \in 1..Len(ledger[i].vals[c].l) :
            /\ ledger[i].vals[c].l[a].k = "none"
            /\ ledger[i].vals[c].l[b].k = "str"

\* C2: a download whose R attempts all fail yields a null ledger slot and
\* the run goes on (the only way the run stops abnormally is a cell of an
\* unexpected type); a single slot holds the basename of its URL exactly
\* when one of its at most R attempts succeeded.
C2_FailedFetchIsNull ==
  pipeline = "dgs" =>
    /\ dpc = "crashed" => cell.k \notin {"none", "str", "list"}
    /\ (lastSlot.done /\ cell_at(lastSlot.r, lastSlot.c).k = "str") =>
         LET cl == cell_at(lastSlot.r, lastSlot.c)
             v == slot_value(lastSlot.r, lastSlot.c)
             cs == calls_of(1)
             succeeded == \E i \in 1..Len(cs) : cs[i]
         IN /\ Len(cs) <= R
            /\ (v = StrV(basename(cl.s))) <=> succeeded
            /\ (v = NoneV) <=> ~succeeded
            /\ (Len(cs) = R /\ ~succeeded) => v = NoneV

\* a single slot all of whose R >= 2 attempts failed, in a row that returned
C2_Witness ==
  /\ pipeline = "dgs" /\ R >= 2
  /\ lastSlot.done /\ cell_at(lastSlot.r, lastSlot.c).k = "str"
  /\ calls_of(1) = [i \in 1..R |-> FALSE]
  /\ lastSlot.r <= Len(ledger)
  /\ ledger[lastSlot.r].vals[lastSlot.c] = NoneV

\* the calls made so far for one URL: at most R, none after a success
calls_so_far_ok(cs) ==
  /\ Len(cs) <= R
  /\ \A i \in 1..(Len(cs) - 1) : ~cs[i]

\* the calls made for one URL once download_file has returned: k calls when
\* the k-th is the first success, R calls when all failed
calls_final_ok(cs) ==
  /\ calls_so_far_ok(cs)
  /\ Len(cs) >= 1
  /\ cs[Len(cs)] \/ Len(cs) = R

\* C3: for one URL the number of network calls is k when the k-th attempt
\* is the first success and R when all attempts fail, never more than R and
\* none after a success; an absent slot causes no network call.
C3_CallCount ==
  (pipeline = "dgs" /\ lastSlot.r > 0) =>
    LET cl == cell_at(lastSlot.r, lastSlot.c)
        open == lastSlot.r = row /\ lastSlot.c = col /\ rowOpen
    IN /\ cl.k = "none" => slotLog = <<>>
       /\ cl.k = "str" =>
            /\ calls_so_far_ok(calls_of(1))
            /\ lastSlot.done => calls_final_ok(calls_of(1))
       /\ cl.k = "list" =>
            \A e \in 1..Len(cl.l) :
              /\ calls_so_far_ok(calls_of(e))
              /\ (lastSlot.done \/ (open /\ e < elem)) => calls_final_ok(calls_of(e))
              /\ (open /\ ~lastSlot.done /\ e > elem) => calls_of(e) = <<>>

\* R = 3: the second attempt is the first success, two calls were made
C3_Witness ==
  /\ pipeline = "dgs" /\ R = 3
  /\ lastSlot.done /\ cell_at(lastSlot.r, lastSlot.c).k = "str"
  /\ calls_of(1) = <<FALSE, TRUE>>

prompting == {pf \in pose_files : ppc[pf] = "prompt"}

\* C4: a prompt is only ever issued on the control thread (the sequential
\* run, n_jobs = 1), never from a task running in a parallel worker, and no
\* two prompts are pending at the same time.
C4_PromptOnControlThread ==
  pipeline = "poses" =>
    /\ Cardinality(prompting) <= 1
    /\ prompting # {} => n_jobs = 1

row_well_typed(i) ==
  \A c \in 1..ncols(i) : cell_at(i, c).k \in {"none", "str", "list"}

\* C5: when the run has ended, every unit other than the ones that raised
\* has been processed: every catalog entry without a structural error has
\* its ledger entry, every video was downloaded or reported as failed.
C5_FailureIsolated ==
  /\ (pipeline = "dgs" /\ dpc \in {"saved", "crashed"}) =>
       \A i \in 1..Len(index) : row_well_typed(i) => i <= Len(ledger)
  /\ (pipeline = "yt" /\ ypc = "done") =>
       \A l \in Languages : ynet[l] > 0 =>
         \A v \in lang_videos(l) : v \in ydir[l].files \/ v \in yfailed

\* videos of the languages the loop is through with, plus the videos handled
\* in the language being downloaded
yt_counted ==
  Cardinality({v \in 1..Len(video_data) : video_data[v] \notin ytodo})
  + (IF ypc = "videos"
     THEN Cardinality(lang_videos(ylang)) - Cardinality(ynext) ELSE 0)

unit_result(pf) ==
  LET path == output_video_path(pf)
  IN IF pres[pf] \in {"ok", "partial"}
     THEN {[path |-> path, content |-> pf, complete |-> pres[pf] = "ok"]}
     ELSE IF path \in out0 THEN {old_file(path)} ELSE {}

\* C7: under policy replace the outputs of a finished run are the union of
\* the results of the single units, each determined by that unit's own input
\* and outcome, whatever n_jobs is and in whatever order the tasks ran.
C7_OrderIndependent ==
  (pipeline = "poses" /\ preplace = "true"
     /\ \A pf \in pose_files : ppc[pf] = "done") =>
    /\ outFs = UNION {unit_result(pf) : pf \in pose_files}
    /\ \A pf \in pose_files : pres[pf] \in {"read_fail", "ok", "fail", "partial"}

\* two workers, two pose files whose names differ only by the directory,
\* one rendered, the other failing over an existing output
C7_Witness ==
  /\ pipeline = "poses" /\ preplace = "true" /\ n_jobs = 2
  /\ Cardinality(pose_files) = 2
  /\ \A pf \in pose_files : ppc[pf] = "done"
  /\ \E pf \in pose_files : pres[pf] = "ok"
  /\ \E pf \in pose_files :
       pres[pf] = "read_fail" /\ output_video_path(pf) \in out0

Digits == <<"0", "1", "2", "3", "4", "5", "6", "7", "8", "9">>

\* number of rows before row i that carry the title of row i
RECURSIVE earlier_same(_, _, _)
earlier_same(ts, i, j) ==
  IF j = 0 THEN 0
  ELSE earlier_same(ts, i, j - 1) + (IF ts[j] = ts[i] THEN 1 ELSE 0)

\* C8: once the identifiers are assigned, row i keeps its place and its
\* identifier is its title, '__' and the number of earlier rows with the
\* same title, counted from 0; two rows titled X get X__0 and X__1.
C8_Identifiers ==
  (pipeline = "dgs" /\ dpc \in {"rows", "saved", "crashed"}) =>
    /\ Len(ids) = Len(index)
    /\ \A i \in 1..Len(ids) :
         LET k == earlier_same(titles, i, i - 1)
         IN k < 10 => ids[i] = index[i].title \o <<"_", "_", Digits[k + 1]>>
    /\ (Len(index) >= 2 /\ index[1].title = <<"X">> /\ index[2].title = <<"X">>) =>
         /\ ids[1] = <<"X", "_", "_", "0">>
         /\ ids[2] = <<"X", "_", "_", "1">>

\* two rows titled X
C8_Witness ==
  /\ pipeline = "dgs" /\ dpc = "rows"
  /\ Len(ids) >= 2
  /\ ids[1] = <<"X", "_", "_", "0">>
  /\ ids[2] = <<"X", "_", "_", "1">>

has_prefix(p, q) == Len(p) >= Len(q) /\ SubSeq(p, 1, Len(q)) = q

\* C9: the identifiers are pairwise distinct, also when a title ends in
\* '__<digits>'; each entry has a directory of its own below the output
\* root; distinct pose files have distinct output paths, so the output files
\* never outnumber the paths and no two tasks share a path.
C9_ExclusiveOutput ==
  /\ (pipeline = "dgs" /\ ids # <<>>) =>
       /\ \A i, j \in 1..Len(ids) :
            i # j => ids[i] # ids[j] /\ row_dir(i) # row_dir(j)
       /\ \A i \in 1..Len(ids) : has_prefix(row_dir(i), dgs_path \o <<"/">>)
       /\ dirs \subseteq {row_dir(i) : i \in 1..Len(ids)}
       /\ \A f \in files : \E i \in 1..Len(ids) :
            has_prefix(f.path, row_dir(i) \o <<"/">>)
  /\ pipeline = "poses" =>
       /\ \A pf1, pf2 \in pose_files :
            pf1 # pf2 => output_video_path(pf1) # output_video_path(pf2)
       /\ \A f \in outFs :
            f.content # <<"old">> => f.path = output_video_path(f.content)

\* a row titled X before a row titled X__0: the first identifier is the
\* second title, and both rows have their directory
C9_Witness ==
  /\ pipeline = "dgs" /\ Len(ids) = 2
  /\ index[1].title = <<"X">> /\ index[2].title = ids[1]
  /\ Cardinality(dirs) = 2

yt_skip_like(l) ==
  yreplace = "skip" \/ (yreplace = "custom" /\ yasked[l] = "n")

yt_replace_like(l) ==
  yreplace = "all" \/ (yreplace = "custom" /\ yasked[l] = "y")

pose_skip_like(pf) ==
  preplace = "false" \/ (preplace = "ask" /\ pasked[pf] = "n")

pose_replace_like(pf) ==
  preplace = "true" \/ (preplace = "ask" /\ pasked[pf] = "y")

\* C10: for an existing unit, 'ask' answered no and 'skip' have one and the
\* same outcome (nothing fetched, nothing written, old content kept, the
\* unit not worked on), 'ask' answered yes and 'replace' have one and the
\* same outcome (the unit is worked on as under replace); a unit that did
\* not exist is never prompted for and is worked on under every policy.
C10_AskIsSkipOrReplace ==
  /\ pipeline = "yt" =>
       \A l \in Languages :
         /\ yasked[l] # "no" => (yreplace = "custom" /\ l \in ydir0)
         /\ (l \in ydir0 /\ yt_skip_like(l)) =>
              ydir[l] = OldDir /\ ynet[l] = 0 /\ ywrites[l] = 0
         /\ (l \in ydir0 /\ yt_replace_like(l) /\ l \notin ytodo
               /\ lang_videos(l) # {}) =>
              /\ ydir[l].exists
              /\ ydir[l].files = lang_videos(l) \ yfailed
              /\ ynet[l] = Cardinality(lang_videos(l))
              /\ ywrites[l] = 2 + Cardinality(ydir[l].files)
         /\ (l \notin ydir0 /\ l \notin ytodo /\ lang_videos(l) # {}) =>
              /\ ydir[l].files = lang_videos(l) \ yfailed
              /\ ynet[l] = Cardinality(lang_videos(l))
  /\ pipeline = "poses" =>
       \A pf \in pose_files :
         LET path == output_video_path(pf)
         IN /\ pasked[pf] # "no" => (preplace = "ask" /\ path \in out0)
            /\ (path \in out0 /\ pose_skip_like(pf)) =>
                 /\ pres[pf] \in {"none", "skipped"}
                 /\ pwrites[pf] = 0
                 /\ old_file(path) \in outFs
                 /\ ppc[pf] \notin {"read", "save"}
            /\ (path \in out0 /\ pose_replace_like(pf) /\ ppc[pf] = "done") =>
                 /\ pres[pf] \in {"read_fail", "ok", "fail", "partial"}
                 /\ unit_result(pf) \subseteq outFs
            /\ (path \notin out0 /\ ppc[pf] = "done") =>
                 /\ pres[pf] \in {"read_fail", "ok", "fail", "partial"}
                 /\ unit_result(pf) \subseteq outFs

\* a finished run under 'custom' in which one existing language was
\* declined and the other one accepted
C10_Witness ==
  /\ pipeline = "yt" /\ yreplace = "custom" /\ ypc = "done"
  /\ \E l1, l2 \in ydir0 :
       /\ yasked[l1] = "n" /\ ydir[l1] = OldDir
       /\ yasked[l2] = "y" /\ ynet[l2] > 0

bad_cell(r, c) == cell_at(r, c).k \notin {"none", "str", "list"}

\* C16: a cell that is neither None nor a string nor a list is never given
\* a ledger value: download_file_row raises at that cell, no network call
\* is made for it or for the slots after it, and the entry gets no ledger
\* row (nor does the run write a table).
C16_BadCellRaises ==
  pipeline = "dgs" =>
    /\ \A i \in 1..Len(ledger) : row_well_typed(i)
    /\ rowOpen => \A c \in 1..Len(filenames) : ~bad_cell(row, c)
    /\ (rowOpen /\ col <= ncols(row) /\ bad_cell(row, col)) =>
         ~(lastSlot.r = row /\ lastSlot.c >= col)
    /\ dpc = "crashed" =>
         /\ rowOpen /\ col <= ncols(row) /\ bad_cell(row, col)
         /\ Len(ledger) = row - 1
         /\ Len(filenames) = col - 1
         /\ csv = <<>>

\* the run stopped at the first cell of its second entry; the entry's second
\* slot holds a URL that was never requested
C16_Witness ==
  /\ pipeline = "dgs" /\ dpc = "crashed"
  /\ row = 2 /\ col = 1 /\ Len(ledger) = 1
  /\ cell_at(2, 2).k = "str"
  /\ lastSlot.r = 1

has_event(kind) == \E i \in 1..Len(slotLog) : slotLog[i][1] = kind

succeeded(e) == \E i \in 1..Len(calls_of(e)) : calls_of(e)[i]

\* the value list position e must hold, given the calls made for u_e
element_value(cl, e) ==
  IF succeeded(e) THEN StrV(basename(cl.l[e].s)) ELSE NoneV

\* C20: in a list slot every URL gets its own calls (k when the k-th is the
\* first success, R when all fail) whatever happened to the URLs before it;
\* position e of the ledger list is the basename of u_e when u_e was
\* downloaded and None otherwise; the group warning is logged, once and
\* last, exactly when the finished list holds a None.
C20_MultipleSlot ==
  (pipeline = "dgs" /\ lastSlot.r > 0
     /\ cell_at(lastSlot.r, lastSlot.c).k = "list") =>
    LET cl == cell_at(lastSlot.r, lastSlot.c)
        n == Len(cl.l)
        v == slot_value(lastSlot.r, lastSlot.c)
    IN IF lastSlot.done
       THEN /\ v.k = "list" /\ Len(v.l) = n
            /\ \A e \in 1..n :
                 /\ calls_final_ok(calls_of(e))
                 /\ v.l[e] = element_value(cl, e)
            /\ has_event("warn_group") <=> \E e \in 1..n : v.l[e] = NoneV
            /\ \A i \in 1..Len(slotLog) :
                 slotLog[i][1] = "warn_group" => i = Len(slotLog)
       ELSE /\ ~has_event("warn_group")
            /\ Len(paths) = elem - 1
            /\ \A e \in 1..(elem - 1) :
                 /\ calls_final_ok(calls_of(e))
                 /\ paths[e] = element_value(cl, e)

\* R >= 2: the first URL of a list failed R times, the second one was then
\* downloaded at its first attempt
C20_Witness ==
  /\ pipeline = "dgs" /\ R >= 2
  /\ lastSlot.done /\ cell_at(lastSlot.r, lastSlot.c).k = "list"
  /\ calls_of(1) = [i \in 1..R |-> FALSE]
  /\ calls_of(2) = <<TRUE>>
  /\ slot_value(lastSlot.r, lastSlot.c).l[1] = NoneV
  /\ slot_value(lastSlot.r, lastSlot.c).l[2].k = "str"
  /\ has_event("warn_group")

units_done == {pf \in pose_files : ppc[pf] = "done"}

\* C12: the progress counter counts every finished unit once, whatever the
\* number of workers, and equals the number of units when the run has ended.
C12_ProgressCounter ==
  /\ pipeline = "poses" =>
       /\ pbar = Cardinality(units_done)
       /\ units_done = pose_files => pbar = Cardinality(pose_files)
  /\ pipeline = "yt" =>
       /\ total_pbar = yt_counted
       /\ ypc = "done" => total_pbar = Len(video_data)

\* what holds of the counters of the sequential runs (n_jobs = 1, YouTube)
ProgressCounterSequential ==
  /\ (pipeline = "poses" /\ n_jobs = 1) => pbar = Cardinality(units_done)
  /\ pipeline = "yt" =>
       /\ total_pbar = yt_counted
       /\ ypc = "done" => total_pbar = Len(video_data)
  /\ [][pbar' >= pbar /\ total_pbar' >= total_pbar]_vars

expected_header == <<"Transcript">> \o labels

\* C17: a run whose index page carries a header other than the expected one
\* (other names or another number of columns) never gets to downloading:
\* from where the table is scraped it can only stop with a structural error.
C17_SchemaChecked ==
  [][(pipeline = "dgs" /\ dpc \in {"start", "prompt"}
        /\ header # expected_header)
       => dpc' \in {"prompt", "aborted", "schema_error"}]_vars

\* what the code does stop on: a header without 'Transcript' or with another
\* number of columns; files, ledger and csv are then still empty
SchemaErrorOnCount ==
  /\ [][(pipeline = "dgs" /\ dpc \in {"start", "prompt"}
           /\ (~has_column(header, "Transcript")
                 \/ Len(header) # Len(expected_header)))
          => dpc' \in {"prompt", "aborted", "schema_error"}]_vars
  /\ [](dpc = "schema_error" =>
          files = {} /\ dirs = {} /\ ledger = <<>> /\ csv = <<>>)

roles == 1..Len(video_types)

\* the ledger value extract_metadata reads for role a of row i
role_value(i, a) == df[i].paths[column_of(video_types[a])]

\* the loop of extract_metadata went through role a of row i
handled(i, a) ==
  i <= Len(df_metadata) \/ (i = arow /\ a <= Len(metadata_dict))

\* what extract_metadata recorded for role a of row i
entry(i, a) ==
  IF i <= Len(df_metadata) THEN df_metadata[i][a] ELSE metadata_dict[a]

\* C13: for every role whose ledger value read from the csv is null, the
\* extraction records the null metadata [None, (None, None)] without calling
\* the prober, and goes on: it never stops at a null slot.
C13_NullSlotNullMetadata ==
  pipeline = "dgs" =>
    /\ \A i \in 1..Len(df) : \A a \in roles :
         (handled(i, a) /\ role_value(i, a).k = "float") =>
           /\ entry(i, a) = NullMeta
           /\ [r |-> i, role |-> a] \notin probes
    /\ apc = "crashed" => role_value(arow, arole).k # "float"

\* what holds instead: a null slot gets the null metadata, unprobed, in a
\* column holding some file name; in a column without any the run stops
NullSlotByColumn ==
  pipeline = "dgs" =>
    /\ \A i \in 1..Len(df) : \A a \in roles :
         (handled(i, a) /\ role_value(i, a).k = "float") =>
           /\ entry(i, a) = NullMeta
           /\ [r |-> i, role |-> a] \notin probes
           /\ column_is_object(df, column_of(video_types[a]))
    /\ apc = "crashed" =>
         /\ role_value(arow, arole).k = "float"
         /\ ~column_is_object(df, column_of(video_types[arole]))

\* a probe that failed: ffmpeg.probe raised, or found no video stream
failed_probe == A_Role("error", 0) \/ A_Role("no_video", 0)

\* C14: a probe that fails leaves its role without duration and dimensions
\* (an empty field of the metadata table), never stops the extraction and
\* changes nothing recorded for another role or row; every role holding a
\* file name is probed, and a run stopped in extract_metadata stopped at an
\* unprobed missing value, not at a probe.
C14_ProbeErrorIsNull ==
  /\ [](pipeline = "dgs" =>
          /\ \A p \in probes :
               /\ handled(p.r, p.role)
               /\ entry(p.r, p.role).k \in {"meta", "unset"}
               /\ entry(p.r, p.role).k = "meta" =>
                    entry(p.r, p.role).dur \in Durations
          /\ \A i \in 1..Len(df) : \A a \in roles :
               (handled(i, a) /\ role_value(i, a).k = "str") =>
                 [r |-> i, role |-> a] \in probes
          /\ apc = "crashed" => [r |-> arow, role |-> arole] \notin probes
          /\ apc \in {"done", "report_crashed"} =>
               /\ Len(df_metadata) = Len(df)
               /\ \A i \in 1..Len(df) : \A a \in roles :
                    entry(i, a).k = "unset" => mcsv[i].meta[a] = <<>>)
  /\ [][failed_probe =>
          /\ apc' = "extract"
          /\ IF arole < Len(video_types)
             THEN /\ metadata_dict' = Append(metadata_dict, Unset)
                  /\ df_metadata' = df_metadata
             ELSE df_metadata' =
                    Append(df_metadata, Append(metadata_dict, Unset))]_vars

\* the probe of the first role of the first entry failed; the second role
\* of that entry and the next entry were probed and have their duration
C14_Witness ==
  /\ pipeline = "dgs" /\ apc \in {"done", "report_crashed"}
  /\ Len(df_metadata) = 2
  /\ [r |-> 1, role |-> 1] \in probes
  /\ df_metadata[1][1] = Unset
  /\ df_metadata[1][2].k = "meta"
  /\ df_metadata[2][1].k = "meta"

is_null(v) == v.k \in {"none", "float"}

\* the value read back is the value written
same_cell(a, b) == (is_null(a) /\ is_null(b)) \/ a = b

\* C18: the table read back from the csv holds, for every entry, the
\* identifier, the catalog cells and the ledger values that were written:
\* null for null, the string for a string, and for a list a list of the
\* same elements in the same order.
C18_RoundTrip ==
  (pipeline = "dgs" /\ action = "both" /\ df # <<>>) =>
    /\ Len(df) = Len(ledger)
    /\ \A i \in 1..Len(df) :
         /\ df[i].id = ids[i]
         /\ df[i].base_dir = StrV(ledger[i].base_dir)
         /\ \A c \in 1..Len(labels) :
              /\ same_cell(df[i].urls[c], index[i].cells[c])
              /\ same_cell(df[i].paths[c], ledger[i].vals[c])

\* what holds instead: a list comes back as the string str() made of it
RoundTripFlat ==
  (pipeline = "dgs" /\ action = "both" /\ df # <<>>) =>
    /\ Len(df) = Len(ledger)
    /\ \A i \in 1..Len(df) :
         /\ df[i].id = ids[i]
         /\ df[i].base_dir = StrV(ledger[i].base_dir)
         /\ \A c \in 1..Len(labels) :
              LET v == ledger[i].vals[c]
              IN IF v.k = "list"
                 THEN df[i].paths[c] = StrV(to_csv_cell(v))
                 ELSE same_cell(df[i].paths[c], v)

\* C11: a declined prompt for one unit leaves that unit as it was and the
\* other units are still processed (the videos of the other languages, the
\* other pose files, the metadata of the entries when the figures directory
\* is not to be replaced); the run as a whole is given up only at the prompt
\* for the output root, and then nothing was deleted, requested or written.
C11_DeclineAbortsUnitOnly ==
  /\ pipeline = "yt" =>
       /\ \A l \in Languages :
            yasked[l] = "n" => ydir[l] = OldDir /\ ynet[l] = 0 /\ ywrites[l] = 0
       /\ ypc = "done" =>
            \A l \in Languages :
              yasked[l] # "n" /\ ~(yreplace = "skip" /\ l \in ydir0) =>
                \A v \in lang_videos(l) : v \in ydir[l].files \/ v \in yfailed
  /\ pipeline = "poses" =>
       /\ \A pf \in pose_files :
            pasked[pf] = "n" =>
              /\ old_file(output_video_path(pf)) \in outFs
              /\ pwrites[pf] = 0
       /\ units_done = pose_files =>
            \A pf \in pose_files :
              pasked[pf] # "n"
                /\ ~(preplace = "false" /\ output_video_path(pf) \in out0) =>
                pres[pf] \in {"read_fail", "ok", "fail", "partial"}
  /\ pipeline = "dgs" =>
       /\ dpc = "aborted" =>
            /\ dgsRoot = "old" /\ dirs = {} /\ files = {}
            /\ slotLog = <<>> /\ ledger = <<>> /\ csv = <<>>
            /\ apc = "off"
       /\ apc = "aborted" =>
            /\ figs = "old"
            /\ Len(df_metadata) = Len(csv) /\ mcsv # <<>>

\* what holds instead: the prompt for the _figures directory, declined, ends
\* analyze_data before the csv is read
FiguresDeclineAbortsAnalysis ==
  (pipeline = "dgs" /\ apc = "aborted") =>
    /\ figs = "old" /\ df = <<>> /\ df_metadata = <<>> /\ probes = {}
    /\ mcsv = <<>> /\ stats = <<>>

\* the string for H hours, M minutes and S hundredths of a second
rendered(H, M, S) ==
  (IF H > 0 THEN str(H) \o <<" ", "h", "o", "u", "r", "s", ",", " ">> ELSE <<>>)
  \o (IF M > 0
      THEN str(M) \o <<" ", "m", "i", "n", "u", "t", "e", "s", ",", " ">>
      ELSE <<>>)
  \o str(S \div 100) \o <<".">> \o str((S % 100) \div 10) \o str(S % 10)
  \o <<" ", "s", "e", "c", "o", "n", "d", "s">>

\* C19: the string returned names the hours H, minutes M < 60 and seconds
\* S < 60 with H * 3600 + M * 60 + S the duration given; the hours appear
\* only when H > 0, the minutes only when M > 0, the seconds always and with
\* two decimals, the parts joined by ', '.  3661 gives '1 hours, 1 minutes,
\* 1.00 seconds', 45.5 gives '45.50 seconds'.
C19_SecondsToHms ==
  (pipeline = "hms" /\ hms # <<>>) =>
    /\ \E H \in 0..(MaxHours + 1), M \in 0..59, S \in 0..5999 :
         /\ H * 360000 + M * 6000 + S = seconds
         /\ hms = rendered(H, M, S)
    /\ seconds = 366100 =>
         hms = <<"1", " ", "h", "o", "u", "r", "s", ",", " ",
                 "1", " ", "m", "i", "n", "u", "t", "e", "s", ",", " ",
                 "1", ".", "0", "0", " ", "s", "e", "c", "o", "n", "d", "s">>
    /\ seconds = 4550 =>
         hms = <<"4", "5", ".", "5", "0",
                 " ", "s", "e", "c", "o", "n", "d", "s">>

\* 3661 seconds were converted
C19_Witness ==
  /\ pipeline = "hms" /\ seconds = 366100
  /\ Len(hms) = 32

\* the file of URL u is in the directory of row i, completely written
downloaded(i, u) ==
  [path |-> join(row_dir(i), basename(u)), complete |-> TRUE] \in files

\* the ledger value of a cell, from the files that were downloaded
value_from_files(i, cl) ==
  CASE cl.k = "str" -> IF downloaded(i, cl.s) THEN StrV(basename(cl.s)) ELSE NoneV
    [] cl.k = "list" ->
         ListV([e \in 1..Len(cl.l) |->
                  IF downloaded(i, cl.l[e].s) THEN StrV(basename(cl.l[e].s))
                  ELSE NoneV])
    [] OTHER -> NoneV

\* C15: a run that has started on the rows of an index without a cell of
\* unexpected type ends with the csv written, whatever downloads fail; the
\* csv has one row per entry of the index, in order, under the entry's
\* identifier, and its ledger fields name exactly the files downloaded.
C15_TerminatesWithLedger ==
  /\ [](pipeline = "dgs" /\ dpc = "saved" =>
          /\ Len(csv) = Len(index)
          /\ \A i \in 1..Len(index) :
               /\ csv[i].id = ids[i]
               /\ csv[i].base_dir = row_dir(i)
               /\ \A c \in 1..ncols(i) :
                    csv[i].paths[c] =
                      to_csv_cell(value_from_files(i, cell_at(i, c))))
  /\ (pipeline = "dgs" /\ dpc = "rows"
        /\ \A i \in 1..Len(index) : row_well_typed(i))
       ~> (dpc = "saved")

\* a run over two entries in which every download failed, R times each, and
\* the csv was written
C15_Witness ==
  /\ pipeline = "dgs" /\ dpc = "saved" /\ R = max_retries_default
  /\ Len(csv) = 2
  /\ \E i \in 1..2 : \E c \in 1..ncols(i) : cell_at(i, c).k = "list"
  /\ \A f \in files : ~f.complete
  /\ \E f \in files : ~f.complete

\* the languages the loop has taken up and is through with
yt_processed(l) == lang_videos(l) # {} /\ l \notin ytodo

\* C21: under policy replace (and under 'ask' answered yes) an output unit
\* that existed before the run holds nothing of its old content once the unit
\* has been processed, whether the new work for the unit succeeded or not: a
\* language directory does not hold its old files, the output path of a pose
\* file does not hold the old video.
C21_ReplaceDestroys ==
  /\ pipeline = "yt" =>
       \A l \in ydir0 :
         (yt_replace_like(l) /\ yt_processed(l)) =>
           /\ ydir[l].exists
           /\ ydir[l].files \subseteq lang_videos(l)
  /\ pipeline = "poses" =>
       \A pf \in pose_files :
         (output_video_path(pf) \in out0 /\ pose_replace_like(pf)
            /\ ppc[pf] = "done") =>
           old_file(output_video_path(pf)) \notin outFs

\* The directory part holds: a replaced language directory is emptied before
\* the first request for one of its videos is sent, and holds only videos of
\* this run from then on.
ReplaceDestroysDirectory ==
  pipeline = "yt" =>
    \A l \in ydir0 :
      (yt_replace_like(l) /\ (ynet[l] > 0 \/ yt_processed(l))) =>
        /\ ydir[l].exists
        /\ ydir[l].files \subseteq lang_videos(l) \ yfailed
        /\ ywrites[l] >= 2

\* The file part: check_output_file deletes nothing, so the old video is gone
\* exactly when save_pose_video wrote to the path.
PoseReplaceKeepsOldOnFailure ==
  pipeline = "poses" =>
    \A pf \in pose_files :
      (output_video_path(pf) \in out0 /\ pose_replace_like(pf)
         /\ ppc[pf] = "done") =>
        (old_file(output_video_path(pf)) \in outFs
           <=> pres[pf] \in {"read_fail", "fail"})

\* the last slot download_file_row has worked on is a Single slot
single_slot ==
  /\ pipeline = "dgs" /\ lastSlot.r > 0
  /\ cell_at(lastSlot.r, lastSlot.c).k = "str"

\* number of events of one kind in the log of the last slot
count(kind) == Len(SelectSeq(slotLog, LAMBDA ev : ev[1] = kind))

\* number of failed attempts in the log of the last slot
failures == Len(SelectSeq(slotLog, LAMBDA ev : ev[1] = "call" /\ ~ev[3]))

\* download_file is between two iterations of its loop for the last slot
retrying ==
  /\ dpc = "rows" /\ rowOpen /\ ~lastSlot.done
  /\ row = lastSlot.r /\ col = lastSlot.c
  /\ attempt = failures /\ failures < R

\* the log of a Single slot: every failed attempt has its warning right
\* behind it, a warning is followed by the next attempt or, after the R-th
\* failure, by the final warning; after a success nothing follows
C22_LogShape ==
  single_slot =>
    /\ \A i \in 1..Len(slotLog) :
         /\ (slotLog[i][1] = "call" /\ ~slotLog[i][3]) =>
              /\ i < Len(slotLog)
              /\ slotLog[i + 1] = <<"warn_attempt", 1, FALSE>>
         /\ (slotLog[i][1] = "call" /\ slotLog[i][3]) =>
              i = Len(slotLog) /\ lastSlot.done
         /\ slotLog[i][1] = "warn_attempt" =>
              /\ i > 1
              /\ slotLog[i - 1] = <<"call", 1, FALSE>>
              /\ IF i = Len(slotLog) THEN retrying
                 ELSE slotLog[i + 1][1] =
                        (IF i = 2 * R THEN "warn_final" ELSE "call")
         /\ slotLog[i][1] \in {"warn_final", "warn_slot"} => i > 2 * R
    /\ count("warn_attempt") = failures
    /\ failures <= R
    /\ count("warn_final") > 0 <=> failures = R
    /\ succeeded(1) =>
         /\ Len(slotLog) = 2 * count("warn_attempt") + 1
         /\ count("warn_final") = 0
         /\ count("warn_slot") = 0

\* a step taken when the log of an open Single slot ends in a per-attempt
\* warning is the next attempt for the same URL
C22_RetryImmediately ==
  (single_slot /\ slotLog # <<>>
     /\ slotLog[Len(slotLog)][1] = "warn_attempt") =>
    /\ Len(slotLog') > Len(slotLog)
    /\ SubSeq(slotLog', 1, Len(slotLog)) = slotLog
    /\ slotLog'[Len(slotLog) + 1][1] = "call"
    /\ lastSlot'.r = lastSlot.r /\ lastSlot'.c = lastSlot.c

\* C22: for a Single slot each failed attempt is followed at once by one
\* per-attempt warning and then by the next attempt, with no state in
\* between in which the program waits; the final 'could not be downloaded'
\* warning comes only after the R-th failure in a row; when an attempt
\* succeeds after k failures the log holds exactly k warnings and no final
\* warning.
C22_SingleSlotWarnings ==
  []C22_LogShape /\ [][C22_RetryImmediately]_vars

\* R = 3: two failures, each with its warning, then a success
C22_Witness ==
  /\ single_slot /\ R = 3 /\ lastSlot.done
  /\ slotLog = << <<"call", 1, FALSE>>, <<"warn_attempt", 1, FALSE>>,
                  <<"call", 1, FALSE>>, <<"warn_attempt", 1, FALSE>>,
                  <<"call", 1, TRUE>> >>

\* analyze_data has been entered
analysis_begun == apc # "off"

\* extract_metadata has been applied to some entry, or the table has been read
extraction_begun ==
  df # <<>> \/ probes # {} \/ metadata_dict # <<>> \/ df_metadata # <<>>
    \/ mcsv # <<>> \/ apc \in {"extract", "done", "crashed", "report_crashed"}

\* C23: metadata extraction begins only after the acquisition of all
\* entries has finished and the ledger is persisted.  In run mode 'both'
\* analyze_data is not entered before download_data has written the csv of
\* a ledger with one entry per index row, and it is never entered after the
\* download was declined, hit a schema error or crashed; in mode 'download'
\* it is never entered; in mode 'analyse' nothing is acquired and the table
\* read is the csv an earlier run persisted.
C23_ExtractionAfterAcquisition ==
  pipeline = "dgs" =>
    /\ dpc \in {"start", "prompt", "rows", "aborted", "crashed",
                "schema_error"} =>
         ~analysis_begun /\ ~extraction_begun
    /\ action = "download" => ~analysis_begun /\ ~extraction_begun
    /\ extraction_begun => analysis_begun
    /\ (analysis_begun /\ action = "both") =>
         /\ dpc = "saved"
         /\ Len(ledger) = Len(index)
         /\ ~rowOpen
         /\ csv = to_csv(merge(ids, index, ledger))
    /\ (analysis_begun /\ action = "analyse") =>
         dpc = "skipped" /\ ledger = <<>> /\ files = {}
    /\ (apc \in {"extract", "done", "report_crashed"} \/ probes # {}) =>
         df = read_csv(csv)

\* a run in mode 'both' over two index rows in which a file has been probed
C23_Witness ==
  /\ pipeline = "dgs" /\ action = "both" /\ dpc = "saved"
  /\ Len(index) = 2 /\ Len(ledger) = 2
  /\ apc = "extract" /\ probes # {}

\* the catalog and ledger columns of the metadata table, as written
metadata_table_rows == [i \in 1..Len(mcsv) |-> mcsv[i].row]

\* once the metadata table is written it has the entries of the ledger
\* file, in order, and each catalog and ledger field of it reads as the
\* value read from the ledger file
C24_MetadataTable ==
  pipeline = "dgs" =>
    /\ apc \in {"done", "report_crashed"} => Len(mcsv) = Len(csv)
    /\ mcsv # <<>> =>
         /\ Len(mcsv) = Len(csv)
         /\ df = read_csv(csv)
         /\ read_csv(metadata_table_rows) = df
         /\ \A i \in 1..Len(mcsv) :
              /\ mcsv[i].row.id = csv[i].id
              /\ Len(mcsv[i].row.urls) = Len(csv[i].urls)
              /\ Len(mcsv[i].row.paths) = Len(csv[i].paths)
              /\ Len(mcsv[i].meta) = Len(video_types)

\* a step taken in or into analyze_data leaves the ledger file, the ledger
\* and the catalog of the run and the downloaded files as they are
C24_LedgerUntouched ==
  (pipeline = "dgs" /\ (apc # "off" \/ apc' # "off")) =>
    /\ csv' = csv
    /\ index' = index /\ ids' = ids /\ ledger' = ledger
    /\ files' = files /\ dirs' = dirs /\ dgsRoot' = dgsRoot

file_at(i, u) == \E f \in files : f.path = join(row_dir(i), basename(u))

\* the resources of the entries download_file_row has returned: row, URL and
\* ledger value
returned_resources ==
  UNION { UNION { LET cl == cell_at(i, c)
                      v == ledger[i].vals[c]
                  IN CASE cl.k = "str" -> {[i |-> i, u |-> cl.s, v |-> v]}
                       [] cl.k = "list" ->
                            {[i |-> i, u |-> cl.l[e].s, v |-> v.l[e]] :
                               e \in 1..Len(cl.l)}
                       [] OTHER -> {} :
                  c \in 1..ncols(i) } :
          i \in 1..Len(ledger) }

\* C25: after download_file_row has returned, the local file of a resource
\* exists in the entry's directory exactly when the resource's ledger value
\* is not null: a download that failed for good leaves no file, complete or
\* partial, at the path derived from its URL.
C25_FileIffLedger ==
  pipeline = "dgs" =>
    \A x \in returned_resources : file_at(x.i, x.u) <=> x.v.k = "str"

\* What holds instead: the complete files are those of the resources with a
\* ledger value; a file left at the path of a resource without one is the
\* partial file of an attempt that broke off.
CompleteFileIffLedger ==
  pipeline = "dgs" =>
    \A x \in returned_resources :
      /\ downloaded(x.i, x.u) <=> x.v.k = "str"
      /\ x.v.k = "str" => x.v.s = basename(x.u)
      /\ (file_at(x.i, x.u) /\ x.v.k # "str") =>
           [path |-> join(row_dir(x.i), basename(x.u)), complete |-> FALSE]
             \in files

====
